---------------------------- MODULE Spec2Model ----------------------------
(***************************************************************************)
(* A model of src/main.py: the free-text query endpoint                    *)
(* query_foreclosure_sheet, its parsers (parse_date_query,                 *)
(* parse_distance_query, parse_time_of_day_query), the two memoized        *)
(* collaborators get_sheet_data (lru_cache(maxsize=1)) and get_coords      *)
(* (lru_cache(maxsize=128)) and the result formatter.                      *)
(*                                                                         *)
(* Python text is modelled as a tuple of character codes, so that lower(), *)
(* strip(), substring tests, regular-expression matching and strptime are  *)
(* computed character by character.  None is the empty tuple << >> where a *)
(* tuple or None is returned, and the value [t |-> "none"] inside a row.   *)
(***************************************************************************)
EXTENDS Integers, Sequences, FiniteSets, TLC

\* ------------------------------------------------------------------------
\* Text
\* ------------------------------------------------------------------------

None == << >>

\* statement sequencing: the value of x is computed once, then Op is applied
\* to it
Then(x, Op(_)) == CHOOSE y \in {Op(v) : v \in {x}} : TRUE

\* the least and the greatest of a non-empty set of numbers
Min(S) == CHOOSE x \in S : \A y \in S : x <= y
Max(S) == CHOOSE x \in S : \A y \in S : x >= y

IsSpace(c) == c \in {9, 10, 11, 12, 13, 32}
IsDigit(c) == c >= 48 /\ c <= 57
DigitVal(c) == c - 48

\* str.lower() on one character (ASCII letters)
LowerChar(c) == IF c >= 65 /\ c <= 90 THEN c + 32 ELSE c

\* str.lower()
lower(s) == [i \in 1..Len(s) |-> LowerChar(s[i])]

\* str.strip(): drop leading and trailing whitespace
strip(s) ==
    Then({i \in 1..Len(s) : ~IsSpace(s[i])}, LAMBDA idx :
        IF idx = {} THEN << >> ELSE SubSeq(s, Min(idx), Max(idx)))

\* s[i..] starts with the text lit
StartsAt(s, i, lit) ==
    /\ i + Len(lit) - 1 <= Len(s)
    /\ \A k \in 1..Len(lit) : s[i + k - 1] = lit[k]

\* the same, ignoring case (re.IGNORECASE against a lower-case literal)
StartsAtCI(s, i, lit) ==
    /\ i + Len(lit) - 1 <= Len(s)
    /\ \A k \in 1..Len(lit) : LowerChar(s[i + k - 1]) = lit[k]

\* Python's `needle in hay` on text
Contains(hay, needle) ==
    \E i \in 1..(Len(hay) + 1) : StartsAt(hay, i, needle)

\* str(n) for an int n >= 0: its decimal digits
IntToStr(n) ==
    LET k == CHOOSE w \in 1..10 : n < 10 ^ w /\ (w = 1 \/ n >= 10 ^ (w - 1))
    IN  [i \in 1..k |-> 48 + ((n \div (10 ^ (k - i))) % 10)]

\* int() of a run of decimal digits
RECURSIVE DigitsToInt(_)
DigitsToInt(s) ==
    IF s = << >> THEN 0
    ELSE 10 * DigitsToInt(SubSeq(s, 1, Len(s) - 1)) + DigitVal(s[Len(s)])

AllDigits(s) == \A i \in 1..Len(s) : IsDigit(s[i])

S_today == <<116, 111, 100, 97, 121>>  \* "today"
S_tomorrow == <<116, 111, 109, 111, 114, 114, 111, 119>>  \* "tomorrow"
S_this_week == <<116, 104, 105, 115, 32, 119, 101, 101, 107>>  \* "this week"
S_next_week == <<110, 101, 120, 116, 32, 119, 101, 101, 107>>  \* "next week"
S_morning == <<109, 111, 114, 110, 105, 110, 103>>  \* "morning"
S_afternoon == <<97, 102, 116, 101, 114, 110, 111, 111, 110>>  \* "afternoon"
S_evening == <<101, 118, 101, 110, 105, 110, 103>>  \* "evening"
S_min == <<109, 105, 110>>  \* "min"
S_hour == <<104, 111, 117, 114>>  \* "hour"
S_hr == <<104, 114>>  \* "hr"
S_None == <<78, 111, 110, 101>>  \* "None"
S_sep == <<44, 32>>  \* ", "
S_TN == <<84, 78>>  \* "TN"
S_nashville == <<110, 97, 115, 104, 118, 105, 108, 108, 101>>  \* "nashville"
S_franklin == <<102, 114, 97, 110, 107, 108, 105, 110>>  \* "franklin"
S_am == <<97, 109>>  \* "am"
S_pm == <<112, 109>>  \* "pm"

\* ------------------------------------------------------------------------
\* Calendar: datetime.date as its proleptic Gregorian ordinal
\* ------------------------------------------------------------------------

IsLeap(y) == (y % 4 = 0) /\ ((y % 100 # 0) \/ (y % 400 = 0))

DaysInMonth(y, m) ==
    IF m = 2 THEN (IF IsLeap(y) THEN 29 ELSE 28)
    ELSE IF m \in {4, 6, 9, 11} THEN 30 ELSE 31

RECURSIVE DaysBeforeMonth(_, _)
DaysBeforeMonth(y, m) ==
    IF m = 1 THEN 0 ELSE DaysBeforeMonth(y, m - 1) + DaysInMonth(y, m - 1)

DaysBeforeYear(y) ==
    (y - 1) * 365 + ((y - 1) \div 4) - ((y - 1) \div 100) + ((y - 1) \div 400)

\* date(y, m, d).toordinal()
Ordinal(y, m, d) == DaysBeforeYear(y) + DaysBeforeMonth(y, m) + d

\* date(y, m, d) is constructible
ValidDate(y, m, d) ==
    /\ y >= 1 /\ y <= 9999
    /\ m >= 1 /\ m <= 12
    /\ d >= 1 /\ d <= DaysInMonth(y, m)

\* date.weekday(): Monday = 0 .. Sunday = 6
weekday(ord) == (ord + 6) % 7

\* ------------------------------------------------------------------------
\* strptime
\* ------------------------------------------------------------------------

\* the directive %m or %I: 1[0-2] | 0[1-9] | [1-9]
TokMonth(t) ==
    \/ Len(t) = 2 /\ t[1] = 49 /\ t[2] \in 48..50
    \/ Len(t) = 2 /\ t[1] = 48 /\ t[2] \in 49..57
    \/ Len(t) = 1 /\ t[1] \in 49..57

\* the directive %d: 3[01] | [12]\d | 0[1-9] | [1-9] | " "[1-9]
TokDay(t) ==
    \/ Len(t) = 2 /\ t[1] = 51 /\ t[2] \in 48..49
    \/ Len(t) = 2 /\ t[1] \in 49..50 /\ IsDigit(t[2])
    \/ Len(t) = 2 /\ t[1] = 48 /\ t[2] \in 49..57
    \/ Len(t) = 1 /\ t[1] \in 49..57
    \/ Len(t) = 2 /\ t[1] = 32 /\ t[2] \in 49..57

\* the directive %M: [0-5]\d | \d
TokMinute(t) ==
    \/ Len(t) = 2 /\ t[1] \in 48..53 /\ IsDigit(t[2])
    \/ Len(t) = 1 /\ IsDigit(t[1])

\* value of a token that may carry a leading blank
TokVal(t) == IF t[1] = 32 THEN DigitsToInt(Tail(t)) ELSE DigitsToInt(t)

\* datetime.strptime(s, "%m/%d/%Y").date(): the ordinal of the date, or
\* None where Python raises ValueError.  The whole text must match.
strptime_date(s) ==
    LET fits == {p \in {1, 2} \X {1, 2} :
                    /\ Len(s) = p[1] + p[2] + 6
                    /\ s[p[1] + 1] = 47
                    /\ s[p[1] + p[2] + 2] = 47
                    /\ TokMonth(SubSeq(s, 1, p[1]))
                    /\ TokDay(SubSeq(s, p[1] + 2, p[1] + p[2] + 1))
                    /\ AllDigits(SubSeq(s, p[1] + p[2] + 3, Len(s)))}
    IN  IF fits = {} THEN None
        ELSE LET p == CHOOSE q \in fits : TRUE
                 m == TokVal(SubSeq(s, 1, p[1]))
                 d == TokVal(SubSeq(s, p[1] + 2, p[1] + p[2] + 1))
                 y == DigitsToInt(SubSeq(s, p[1] + p[2] + 3, Len(s)))
             IN  IF ValidDate(y, m, d) THEN <<Ordinal(y, m, d)>> ELSE None

\* datetime.strptime(s, "%I:%M %p").time() as <<minutes since midnight>>,
\* or None where Python raises ValueError.  The blank of the format
\* matches one or more whitespace characters; %p ignores case.
strptime_time(s) ==
    LET fits == {p \in {1, 2} \X {1, 2} :
                    /\ Len(s) >= p[1] + p[2] + 4
                    /\ s[p[1] + 1] = 58
                    /\ TokMonth(SubSeq(s, 1, p[1]))
                    /\ TokMinute(SubSeq(s, p[1] + 2, p[1] + p[2] + 1))
                    /\ \A i \in (p[1] + p[2] + 2)..(Len(s) - 2) : IsSpace(s[i])
                    /\ \/ StartsAtCI(s, Len(s) - 1, S_am)
                       \/ StartsAtCI(s, Len(s) - 1, S_pm)}
    IN  IF fits = {} THEN None
        ELSE LET p == CHOOSE q \in fits : TRUE
                 h == DigitsToInt(SubSeq(s, 1, p[1]))
                 mi == DigitsToInt(SubSeq(s, p[1] + 2, p[1] + p[2] + 1))
                 pm == StartsAtCI(s, Len(s) - 1, S_pm)
                 hour == IF pm THEN (IF h = 12 THEN 12 ELSE h + 12)
                         ELSE (IF h = 12 THEN 0 ELSE h)
             IN  <<hour * 60 + mi>>

\* ------------------------------------------------------------------------
\* parse_date_query, parse_time_of_day_query
\* ------------------------------------------------------------------------

\* a variant of parse_date_query that counts "next week" from the current
\* day instead of from the Monday of the current week
parse_date_query_from_now(query, now) ==
    Then(lower(query), LAMBDA query_lower :
        IF Contains(query_lower, S_today) THEN <<now, now>>
        ELSE IF Contains(query_lower, S_tomorrow) THEN <<now + 1, now + 1>>
        ELSE IF Contains(query_lower, S_this_week)
             THEN <<now - weekday(now), now - weekday(now) + 6>>
        ELSE IF Contains(query_lower, S_next_week) THEN <<now + 7, now + 13>>
        ELSE None)

\* parse_date_query(query) when datetime.now().date() is `now`: <<start,
\* end>> or None.  The phrases are tried in the order today, tomorrow, this
\* week, next week.
parse_date_query(query, now) ==
    LET query_lower == lower(query)
    IN  IF Contains(query_lower, S_today) THEN <<now, now>>
        ELSE IF Contains(query_lower, S_tomorrow) THEN <<now + 1, now + 1>>
        ELSE IF Contains(query_lower, S_this_week)
             THEN LET start == now - weekday(now) IN <<start, start + 6>>
        ELSE IF Contains(query_lower, S_next_week)
             THEN LET start == now + (7 - weekday(now)) IN <<start, start + 6>>
        ELSE None

\* time(h, m) as minutes since midnight
Clock(h, m) == h * 60 + m

\* parse_time_of_day_query(query): <<start, end>> or None
parse_time_of_day_query(query) ==
    LET query_lower == lower(query)
    IN  IF Contains(query_lower, S_morning) THEN <<Clock(7, 0), Clock(12, 0)>>
        ELSE IF Contains(query_lower, S_afternoon) THEN <<Clock(12, 0), Clock(17, 0)>>
        ELSE IF Contains(query_lower, S_evening) THEN <<Clock(17, 0), Clock(21, 0)>>
        ELSE None

\* ------------------------------------------------------------------------
\* parse_distance_query: the pattern of line 88, matched as re.search does
\* ------------------------------------------------------------------------

\* group 1: at least|more than|over|greater than|at most|within|less than|under
CompAlts ==
    << <<97, 116, 32, 108, 101, 97, 115, 116>>,                     \* "at least"
       <<109, 111, 114, 101, 32, 116, 104, 97, 110>>,               \* "more than"
       <<111, 118, 101, 114>>,                                      \* "over"
       <<103, 114, 101, 97, 116, 101, 114, 32, 116, 104, 97, 110>>, \* "greater than"
       <<97, 116, 32, 109, 111, 115, 116>>,                         \* "at most"
       <<119, 105, 116, 104, 105, 110>>,                            \* "within"
       <<108, 101, 115, 115, 32, 116, 104, 97, 110>>,               \* "less than"
       <<117, 110, 100, 101, 114>> >>                               \* "under"

\* the comparison phrases that give a lower bound (line 96)
LowerBoundComps == {CompAlts[1], CompAlts[2], CompAlts[3], CompAlts[4]}

\* group 3: mile|min|minute|hr|hour, tried in this order
UnitAlts ==
    << <<109, 105, 108, 101>>,              \* "mile"
       <<109, 105, 110>>,                   \* "min"
       <<109, 105, 110, 117, 116, 101>>,    \* "minute"
       <<104, 114>>,                        \* "hr"
       <<104, 111, 117, 114>> >>            \* "hour"

\* the optional connector: from|of|around|near
ConnAlts ==
    << <<102, 114, 111, 109>>,              \* "from"
       <<111, 102>>,                        \* "of"
       <<97, 114, 111, 117, 110, 100>>,     \* "around"
       <<110, 101, 97, 114>> >>             \* "near"

\* \s* from position i, greedy: the first position that is not whitespace
WsEnd(s, i) ==
    CHOOSE j \in i..(Len(s) + 1) :
        /\ \A k \in i..(j - 1) : IsSpace(s[k])
        /\ j = Len(s) + 1 \/ ~IsSpace(s[j])

\* \d+ from position i, greedy: the first position that is not a digit
DigEnd(s, i) ==
    CHOOSE j \in i..(Len(s) + 1) :
        /\ \A k \in i..(j - 1) : IsDigit(s[k])
        /\ j = Len(s) + 1 \/ ~IsDigit(s[j])

\* \d+(?:\.\d+)? from position i: the position after the number, 0 if none.
\* Only the greedy match can be followed by \s* and a unit, which starts
\* with a letter.
NumEnd(s, i) ==
    IF i > Len(s) \/ ~IsDigit(s[i]) THEN 0
    ELSE Then(DigEnd(s, i), LAMBDA e :
             IF e + 1 <= Len(s) /\ s[e] = 46 /\ IsDigit(s[e + 1])
             THEN DigEnd(s, e + 1) ELSE e)

\* s?\s*(?:from|of|around|near)?\s*(.+) from position p: the position where
\* group 4 starts, 0 if it cannot match.  Every quantifier is greedy and
\* gives back only when (.+) would otherwise be empty, the innermost choice
\* first, as the backtracking matcher does.

\* the last \s*(.+): the longest run of whitespace that leaves a character
TailWs(s, p4) ==
    Then(WsEnd(s, p4), LAMBDA e :
        IF e <= Len(s) THEN e ELSE IF e - 1 >= p4 THEN Len(s) ELSE 0)

\* (?:from|of|around|near)?\s*(.+): the connectors in order, then none
TailConn(s, p3) ==
    Then({c \in 1..4 : StartsAtCI(s, p3, ConnAlts[c])
                       /\ TailWs(s, p3 + Len(ConnAlts[c])) # 0}, LAMBDA conns :
        IF conns # {}
        THEN TailWs(s, p3 + Len(ConnAlts[Min(conns)]))
        ELSE TailWs(s, p3))

\* \s*(?:from|of|around|near)?\s*(.+): the longest run of whitespace after
\* which the rest matches
TailSpace(s, p2) ==
    Then({p3 \in p2..WsEnd(s, p2) : TailConn(s, p3) # 0}, LAMBDA ends :
        IF ends = {} THEN 0 ELSE TailConn(s, Max(ends)))

\* s?\s*...: with the plural "s" if the rest then matches, else without
TailStart(s, p) ==
    Then(IF p <= Len(s) /\ LowerChar(s[p]) = 115 THEN TailSpace(s, p + 1) ELSE 0,
         LAMBDA plural : IF plural # 0 THEN plural ELSE TailSpace(s, p))

\* \s*(\d+(?:\.\d+)?)\s*(mile|min|minute|hr|hour)s?... from position p
\* (group 1 already decided): the groups 2, 3, 4, or None
MatchRest(s, p) ==
    Then(WsEnd(s, p), LAMBDA n1 :
    Then(NumEnd(s, n1), LAMBDA n2 :
    Then(IF n2 = 0 THEN 0 ELSE WsEnd(s, n2), LAMBDA u1 :
    Then({u \in 1..5 : n2 # 0 /\ StartsAtCI(s, u1, UnitAlts[u])
                       /\ TailStart(s, u1 + Len(UnitAlts[u])) # 0}, LAMBDA units :
        IF units = {} THEN None
        ELSE Then(u1 + Len(UnitAlts[Min(units)]), LAMBDA ue :
                 [val_str |-> SubSeq(s, n1, n2 - 1),
                  unit |-> SubSeq(s, u1, ue - 1),
                  loc_str |-> SubSeq(s, TailStart(s, ue), Len(s))])))))

\* the match that starts exactly at position i, or None: the comparison
\* phrases in order, then the pattern without group 1
MatchAt(s, i) ==
    Then({k \in 1..8 : StartsAtCI(s, i, CompAlts[k])
                       /\ MatchRest(s, i + Len(CompAlts[k])) # None}, LAMBDA comps :
        IF comps # {}
        THEN Then(Min(comps), LAMBDA k :
                 [comp |-> SubSeq(s, i, i + Len(CompAlts[k]) - 1),
                  rest |-> MatchRest(s, i + Len(CompAlts[k]))])
        ELSE Then(MatchRest(s, i), LAMBDA rest :
                 IF rest # None THEN [comp |-> None, rest |-> rest] ELSE None))

\* pattern.search(query): the leftmost match, or None.  Queries hold no
\* line break, so (.+) runs to the end of the text.
pattern_search(query) ==
    Then({i \in 1..(Len(query) + 1) : MatchAt(query, i) # None}, LAMBDA starts :
        IF starts = {} THEN None ELSE MatchAt(query, Min(starts)))

\* float(val_str) as the fraction <<numerator, denominator>>
float(val_str) ==
    LET dots == {i \in 1..Len(val_str) : val_str[i] = 46}
    IN  IF dots = {} THEN <<DigitsToInt(val_str), 1>>
        ELSE LET d == CHOOSE i \in dots : TRUE
                 frac == SubSeq(val_str, d + 1, Len(val_str))
                 RECURSIVE Pow10(_)
                 Pow10(n) == IF n = 0 THEN 1 ELSE 10 * Pow10(n - 1)
             IN  <<DigitsToInt(SubSeq(val_str, 1, d - 1)) * Pow10(Len(frac))
                     + DigitsToInt(frac), Pow10(Len(frac))>>

\* lines 93-94: minutes * 0.8, hours * 45; the tests read the unit as the
\* query spells it
convert_units(dist, unit) ==
    IF Contains(unit, S_min) THEN <<dist[1] * 8, dist[2] * 10>>
    ELSE IF Contains(unit, S_hr) THEN <<dist[1] * 45, dist[2]>>
    ELSE dist

\* lines 88-96 of parse_distance_query: None when the pattern does not
\* match, else the bounds in miles (None for an absent bound) and the text
\* of the anchor location
distance_phrase(query) ==
    Then(pattern_search(query), LAMBDA match :
        IF match = None THEN None
        ELSE Then(convert_units(float(match.rest.val_str), match.rest.unit), LAMBDA dist :
             Then(match.comp # None /\ lower(match.comp) \in LowerBoundComps,
                  LAMBDA lowerBound :
                 [min_dist |-> IF lowerBound THEN dist ELSE None,
                  max_dist |-> IF lowerBound THEN None ELSE dist,
                  loc_str |-> match.rest.loc_str])))

\* ------------------------------------------------------------------------
\* Rows of the sheet: worksheet.get_all_records() gives one dict per row,
\* here a tuple of <<header, value>> pairs in header order.  A cell is text,
\* an int (gspread turns numeric cells into numbers) or None.
\* ------------------------------------------------------------------------

PyStr(s) == [t |-> "str", v |-> s]
PyInt(n) == [t |-> "int", v |-> <<n>>]
PyNone == [t |-> "none", v |-> << >>]

\* bool(x)
Truthy(x) ==
    CASE x.t = "str" -> x.v # << >>
      [] x.t = "int" -> x.v[1] # 0
      [] OTHER -> FALSE

\* str(x)
str(x) ==
    CASE x.t = "str" -> x.v
      [] x.t = "int" -> IntToStr(x.v[1])
      [] OTHER -> S_None

\* row.get(key, default)
Get(row, key, default) ==
    Then({i \in 1..Len(row) : row[i][1] = key}, LAMBDA at :
        IF at = {} THEN default ELSE row[Min(at)][2])

\* " ".join(texts)
RECURSIVE Join(_)
Join(texts) ==
    IF texts = << >> THEN << >>
    ELSE IF Len(texts) = 1 THEN texts[1]
    ELSE texts[1] \o <<32>> \o Join(Tail(texts))

\* ------------------------------------------------------------------------
\* The sheets the record provider may hold and the queries posted
\* ------------------------------------------------------------------------

T_Nashville == <<78, 97, 115, 104, 118, 105, 108, 108, 101>>   \* "Nashville"
T_Franklin == <<70, 114, 97, 110, 107, 108, 105, 110>>   \* "Franklin"
T_Davidson == <<68, 97, 118, 105, 100, 115, 111, 110>>   \* "Davidson"
T_Williamson == <<87, 105, 108, 108, 105, 97, 109, 115, 111, 110>>   \* "Williamson"
T_Bank == <<66, 97, 110, 107>>   \* "Bank"
T_Court == <<67, 111, 117, 114, 116>>   \* "Court"
T_8_Elm == <<56, 32, 69, 108, 109>>   \* "8 Elm"
T_12_Oak == <<49, 50, 32, 79, 97, 107>>   \* "12 Oak"
T_Big == <<66, 105, 103>>   \* "Big"
D_0610 == <<48, 54, 47, 49, 48, 47, 50, 48, 50, 53>>   \* "06/10/2025"
D_64 == <<54, 47, 52, 47, 50, 48, 50, 53>>   \* "6/4/2025"
D_0615 == <<48, 54, 47, 49, 53, 47, 50, 48, 50, 53>>   \* "06/15/2025"
D_0230 == <<48, 50, 47, 51, 48, 47, 50, 48, 50, 53>>   \* "02/30/2025"
C_1000AM == <<49, 48, 58, 48, 48, 32, 65, 77>>   \* "10:00 AM"
C_130PM == <<49, 58, 51, 48, 32, 80, 77>>   \* "1:30 PM"
C_915am == <<57, 58, 49, 53, 32, 97, 109>>   \* "9:15 am"
C_1200PM == <<49, 50, 58, 48, 48, 32, 80, 77>>   \* "12:00 PM"
C_noon == <<110, 111, 111, 110>>   \* "noon"
C_700AM == <<55, 58, 48, 48, 32, 65, 77>>   \* "7:00 AM"

FullRow(address, date, time, city, county, zip, source) ==
    << <<"PropertyAddress", address>>, <<"SaleDate", date>>, <<"SaleTime", time>>,
       <<"City", city>>, <<"County", county>>, <<"ZipCode", zip>>,
       <<"Source", source>> >>

\* the current sheet: full rows; dates padded and unpadded, empty, not a
\* date of the calendar, and a numeric cell; an empty address
SheetFull ==
    << FullRow(PyStr(T_8_Elm), PyStr(D_0610), PyStr(C_1000AM), PyStr(T_Nashville),
               PyStr(T_Davidson), PyInt(37201), PyStr(T_Bank)),
       FullRow(PyStr(T_12_Oak), PyStr(D_64), PyStr(C_130PM), PyStr(T_Franklin),
               PyStr(T_Williamson), PyInt(37064), PyStr(T_Court)),
       FullRow(PyStr(<< >>), PyStr(<< >>), PyStr(C_915am), PyStr(T_Nashville),
               PyStr(T_Davidson), PyInt(37201), PyStr(T_Bank)),
       FullRow(PyStr(T_8_Elm), PyStr(D_0615), PyStr(C_1200PM), PyStr(T_Nashville),
               PyStr(T_Davidson), PyInt(37201), PyStr(T_Court)),
       FullRow(PyStr(T_12_Oak), PyStr(D_0230), PyStr(C_noon), PyStr(T_Franklin),
               PyStr(T_Williamson), PyInt(37064), PyStr(T_Bank)),
       FullRow(PyStr(T_12_Oak), PyInt(20250609), PyStr(C_700AM), PyStr(T_Franklin),
               PyStr(T_Williamson), PyInt(0), PyNone) >>

\* a sheet of an older shape: no SaleDate, ZipCode or Source column, and
\* cells holding None and a number
SheetOld ==
    << << <<"PropertyAddress", PyStr(T_8_Elm)>>, <<"City", PyStr(T_Nashville)>>,
          <<"County", PyNone>>, <<"SaleTime", PyInt(930)>> >>,
       << <<"PropertyAddress", PyStr(T_12_Oak)>>, <<"City", PyStr(T_Franklin)>>,
          <<"County", PyStr(T_Williamson)>>, <<"SaleTime", PyStr(C_130PM)>> >> >>

\* a sheet whose City column holds a number in one row
SheetNumericCity ==
    << FullRow(PyStr(T_8_Elm), PyStr(D_0610), PyStr(C_1000AM), PyInt(37201),
               PyStr(T_Davidson), PyInt(37201), PyStr(T_Bank)) >>

\* a long sheet: BigRows rows whose address cell is the row number
BigRows == 127

SheetBig ==
    [i \in 1..BigRows |->
        << <<"PropertyAddress", PyInt(i)>>, <<"City", PyStr(T_Big)>> >>]

Sheets == <<SheetFull, SheetOld, SheetNumericCity>>

T_within == <<119, 105, 116, 104, 105, 110, 32>>   \* "within "
T_miles_of == <<32, 109, 105, 108, 101, 115, 32, 111, 102, 32>>   \* " miles of "
T_hours_of == <<32, 104, 111, 117, 114, 115, 32, 111, 102, 32>>   \* " hours of "
T_hrs_of == <<32, 104, 114, 115, 32, 111, 102, 32>>   \* " hrs of "
T_minutes_of == <<32, 109, 105, 110, 117, 116, 101, 115, 32, 111, 102, 32>>   \* " minutes of "
T_next_week == <<110, 101, 120, 116, 32, 119, 101, 101, 107, 32>>   \* "next week "
T_morning == <<109, 111, 114, 110, 105, 110, 103, 32>>   \* "morning "
Q_Next_Week == <<32, 78, 101, 120, 116, 32, 87, 101, 101, 107, 32>>  \* " Next Week "
Q_today_or_next_week == <<116, 111, 100, 97, 121, 32, 111, 114, 32, 110, 101, 120, 116, 32, 119, 101, 101, 107>>  \* "today or next week"
Q_bank == <<98, 97, 110, 107>>  \* "bank"

\* "within <n> miles of <anchor>"
WithinMiles(n, anchor) == T_within \o IntToStr(n) \o T_miles_of \o anchor

DateQueries == {Q_Next_Week, Q_today_or_next_week, S_this_week, S_tomorrow, S_today}

\* the magnitudes N asked as "within N miles of Nashville"; the houses of
\* SheetFull stand 8 and 12 miles from Nashville
MilesAsked == {7, 8, 11, 12}

T_Atlantis == <<65, 116, 108, 97, 110, 116, 105, 115>>  \* "Atlantis"
Q_2_hours == T_within \o IntToStr(2) \o T_hours_of \o T_Nashville
Q_2_hrs == T_within \o IntToStr(2) \o T_hrs_of \o T_Nashville
Q_30_minutes == T_within \o IntToStr(30) \o T_minutes_of \o T_Nashville
Q_next_week_within == T_next_week \o WithinMiles(10, T_Nashville)
Q_morning_within == T_morning \o WithinMiles(10, T_Nashville)

\* the distance queries posted while the geocoder comes and goes
GeoQueries ==
    {WithinMiles(m, T_Nashville) : m \in MilesAsked}
        \cup {WithinMiles(10, S_nashville), WithinMiles(5, T_Atlantis)}

\* the queries posted against the long sheet
BigQueries ==
    {WithinMiles(200, T_Nashville), WithinMiles(200, T_Franklin),
     WithinMiles(200, T_Atlantis)}

\* the queries posted while the record provider comes and goes
MainQueries ==
    {<< >>, S_morning, S_nashville, Q_bank, Q_2_hours, Q_2_hrs, Q_30_minutes,
     Q_next_week_within, Q_morning_within}

Queries ==
    DateQueries \cup GeoQueries \cup BigQueries \cup MainQueries
        \cup {WithinMiles(m + 1, T_Nashville) : m \in MilesAsked}

\* Monday 2 June 2025, and how many days the clock may advance
Day0 == Ordinal(2025, 6, 2)
MaxDay == 8

\* ------------------------------------------------------------------------
\* Parsing done once: what the parsers give for every query posted and
\* every cell of the sheets, tabulated so that a request looks the result
\* up.  A text outside the tables is parsed on the spot.
\* ------------------------------------------------------------------------

Days == Day0..(Day0 + MaxDay)

QueryTexts == {strip(q) : q \in Queries}

CellTexts ==
    UNION {UNION {{s[r][c][2].v : c \in {d \in 1..Len(s[r]) : s[r][d][2].t = "str"}} :
                     r \in 1..Len(s)} : s \in {SheetFull, SheetOld, SheetNumericCity}}

ParsedQueries ==
    [q \in QueryTexts |->
        [distance |-> distance_phrase(q),
         time |-> parse_time_of_day_query(q),
         date |-> [d \in Days |-> parse_date_query(q, d)]]]

ParsedCells ==
    [s \in CellTexts |-> [date |-> strptime_date(s), time |-> strptime_time(s)]]

DistancePhraseOf(query) ==
    IF query \in QueryTexts THEN ParsedQueries[query].distance
    ELSE distance_phrase(query)

TimeRangeOf(query) ==
    IF query \in QueryTexts THEN ParsedQueries[query].time
    ELSE parse_time_of_day_query(query)

DateRangeOf(query, now) ==
    IF query \in QueryTexts /\ now \in Days THEN ParsedQueries[query].date[now]
    ELSE parse_date_query(query, now)

SaleDateOf(text) ==
    IF text \in CellTexts THEN ParsedCells[text].date ELSE strptime_date(text)

SaleTimeOf(text) ==
    IF text \in CellTexts THEN ParsedCells[text].time ELSE strptime_time(text)

\* ------------------------------------------------------------------------
\* The geocoding service (geopy's Nominatim and geodesic), as the endpoint
\* sees it: a fixed map of the world that answers while the service is up
\* ------------------------------------------------------------------------

GeocoderModes == {"up", "timed_out", "unavailable"}


\* The map: the two towns, and every street address, which lies as many
\* miles east of Nashville as its house number says.  Any other text has no
\* match.
World(text) ==
    IF text = S_nashville THEN <<0, 0>>
    ELSE IF text = S_franklin THEN <<0, 18>>
    ELSE LET e == DigEnd(text, 1)
         IN  IF e > 1 /\ e <= Len(text) /\ text[e] \in {32, 44}
             THEN <<DigitsToInt(SubSeq(text, 1, e - 1)), 0>>
             ELSE None

\* geolocator.geocode(text, timeout=5): "ok" with the coordinates, "none"
\* for no match, or the exception raised
geocode(text, mode) ==
    IF mode = "up"
    THEN Then(World(text), LAMBDA at :
             IF at # None THEN [kind |-> "ok", at |-> at]
             ELSE [kind |-> "none", at |-> None])
    ELSE [kind |-> mode, at |-> None]

Abs(n) == IF n < 0 THEN -n ELSE n

\* geodesic(a, b).miles on the map above
geodesic_miles(a, b) == Abs(a[1] - b[1]) + Abs(a[2] - b[2])

\* ------------------------------------------------------------------------
\* get_coords under functools.lru_cache(maxsize=128)
\* ------------------------------------------------------------------------

maxsize == 128

\* the body of get_coords (lines 66-72): the coordinates or None, and the
\* text handed to the geocoder
get_coords_body(location_str, mode) ==
    Then(lower(strip(location_str)), LAMBDA sent :
    Then(geocode(sent, mode), LAMBDA location :
        [value |-> IF location.kind = "ok" THEN location.at ELSE None,
         sent |-> sent]))

\* the position of key in the cache, 0 if absent
CacheIndex(cache, key) ==
    IF \E i \in 1..Len(cache) : cache[i].key = key
    THEN CHOOSE i \in 1..Len(cache) : cache[i].key = key
    ELSE 0

Remove(seq, i) == SubSeq(seq, 1, i - 1) \o SubSeq(seq, i + 1, Len(seq))

\* a variant of get_coords whose cache keeps successful results only
get_coords_forgetful(cache, location_str, mode) ==
    Then(CacheIndex(cache, location_str), LAMBDA i :
        IF i # 0
        THEN [cache |-> Append(Remove(cache, i), cache[i]),
              value |-> cache[i].val,
              called |-> FALSE]
        ELSE Then(get_coords_body(location_str, mode), LAMBDA r :
                 [cache |-> IF r.value = None THEN cache
                            ELSE Append(IF Len(cache) >= maxsize THEN Tail(cache)
                                        ELSE cache,
                                        [key |-> location_str, val |-> r.value]),
                  value |-> r.value,
                  called |-> TRUE]))

\* get_coords(location_str) through the lru_cache wrapper.  The cache is
\* keyed by the argument as passed and ordered from least to most recently
\* used; a hit returns the stored result, whatever it is, and a miss runs
\* the body, stores its result (None included) and drops the least
\* recently used entry when the cache is full.
get_coords(cache, location_str, mode) ==
    Then(CacheIndex(cache, location_str), LAMBDA i :
        IF i # 0
        THEN [cache |-> Append(Remove(cache, i), cache[i]),
              value |-> cache[i].val,
              called |-> FALSE]
        ELSE Then(get_coords_body(location_str, mode), LAMBDA r :
                 [cache |-> Append(IF Len(cache) >= maxsize THEN Tail(cache) ELSE cache,
                                   [key |-> location_str, val |-> r.value]),
                  value |-> r.value,
                  called |-> TRUE]))

\* Call-count instrumentation around get_coords.  `seen` lists every
\* argument ever looked up, ordered by latest lookup, with its normalised
\* form (trimmed, lower case), what its latest lookup returned (`val`) and
\* the coordinates of its first successful resolution (`ok`, None if none
\* yet).  Each call logs its argument, its result, whether the geocoder was
\* invoked, what the previous lookup of the same argument returned (`prev`,
\* << >> if there was none), how many distinct other arguments were looked
\* up since (`since`), and the coordinates earlier resolved for arguments
\* with the same normalised form (`known`).
Lookup(st, location_str, mode) ==
    Then(get_coords(st.cache, location_str, mode), LAMBDA r :
    Then(CacheIndex(st.seen, location_str), LAMBDA j :
    Then(lower(strip(location_str)), LAMBDA norm :
        [cache |-> r.cache,
         seen |-> Append(IF j = 0 THEN st.seen ELSE Remove(st.seen, j),
                         [key |-> location_str, norm |-> norm, val |-> r.value,
                          ok |-> IF j # 0 /\ st.seen[j].ok # None
                                 THEN st.seen[j].ok ELSE r.value]),
         log |-> Append(st.log,
                        [arg |-> location_str,
                         value |-> r.value,
                         called |-> r.called,
                         prev |-> IF j = 0 THEN << >> ELSE <<st.seen[j].val>>,
                         since |-> IF j = 0 THEN 0 ELSE Len(st.seen) - j,
                         known |-> {st.seen[k].ok :
                                       k \in {n \in 1..Len(st.seen) :
                                                 /\ st.seen[n].norm = norm
                                                 /\ st.seen[n].ok # None}}]),
         value |-> r.value])))

\* ------------------------------------------------------------------------
\* parse_distance_query (lines 87-98)
\* ------------------------------------------------------------------------

\* the whole function on the lookup state st: the state after the lookup of
\* the anchor, and (max_dist, min_dist, target_coords) or None
parse_distance_query(st, query, mode) ==
    Then(DistancePhraseOf(query), LAMBDA phrase :
        IF phrase = None THEN [st |-> st, params |-> None]
        ELSE Then(Lookup(st, phrase.loc_str, mode), LAMBDA after :
                 [st |-> after,
                  params |-> IF after.value # None
                             THEN [max_dist |-> phrase.max_dist,
                                   min_dist |-> phrase.min_dist,
                                   target_coords |-> after.value]
                             ELSE None]))

\* ------------------------------------------------------------------------
\* query_foreclosure_sheet, step 2: the predicates on one row
\* ------------------------------------------------------------------------

\* a variant of the date predicate whose range excludes its last day
date_predicate_open_end(row, date_range) ==
    Then(Get(row, "SaleDate", PyNone), LAMBDA sale_date_str :
        IF ~Truthy(sale_date_str) THEN FALSE
        ELSE IF sale_date_str.t # "str" THEN FALSE
        ELSE Then(SaleDateOf(sale_date_str.v), LAMBDA sale_date :
                 /\ sale_date # None
                 /\ date_range[1] <= sale_date[1]
                 /\ sale_date[1] < date_range[2]))

\* lines 131-137: the date predicate; a missing, empty, non-text or
\* unparsable SaleDate fails it (ValueError and TypeError are caught)
date_predicate(row, date_range) ==
    Then(Get(row, "SaleDate", PyNone), LAMBDA sale_date_str :
        IF ~Truthy(sale_date_str) THEN FALSE
        ELSE IF sale_date_str.t # "str" THEN FALSE
        ELSE Then(SaleDateOf(sale_date_str.v), LAMBDA sale_date :
                 /\ sale_date # None
                 /\ date_range[1] <= sale_date[1]
                 /\ sale_date[1] <= date_range[2]))

\* lines 141-147: the time-of-day predicate
time_predicate(row, time_range) ==
    Then(Get(row, "SaleTime", PyNone), LAMBDA sale_time_str :
        IF ~Truthy(sale_time_str) THEN FALSE
        ELSE IF sale_time_str.t # "str" THEN FALSE
        ELSE Then(SaleTimeOf(sale_time_str.v), LAMBDA sale_time :
                 /\ sale_time # None
                 /\ time_range[1] <= sale_time[1]
                 /\ sale_time[1] <= time_range[2]))

\* line 152: f"{row.get('PropertyAddress', '')}, {row.get('City', '')}, TN"
address_of(row) ==
    str(Get(row, "PropertyAddress", PyStr(<< >>))) \o S_sep
        \o str(Get(row, "City", PyStr(<< >>))) \o S_sep \o S_TN

\* a variant of the distance test with the upper bound read as a lower one
distance_predicate_flipped(params, prop_coords) ==
    IF prop_coords = None THEN FALSE
    ELSE Then(geodesic_miles(params.target_coords, prop_coords), LAMBDA dist :
             /\ ~(params.max_dist # None
                    /\ dist * params.max_dist[2] < params.max_dist[1])
             /\ ~(params.min_dist # None
                    /\ dist * params.min_dist[2] < params.min_dist[1]))

\* lines 154-158: the distance test once the address was looked up; dist is
\* in miles, the bounds are fractions
distance_predicate(params, prop_coords) ==
    IF prop_coords = None THEN FALSE
    ELSE Then(geodesic_miles(params.target_coords, prop_coords), LAMBDA dist :
             /\ ~(params.max_dist # None
                    /\ dist * params.max_dist[2] > params.max_dist[1])
             /\ ~(params.min_dist # None
                    /\ dist * params.min_dist[2] < params.min_dist[1]))

\* lines 162-164: some location keyword occurs in "City County"
location_predicate(row, location_keywords) ==
    Then(lower(str(Get(row, "City", PyStr(<< >>))) \o <<32>>
                  \o str(Get(row, "County", PyStr(<< >>)))), LAMBDA row_loc_text :
        \E loc \in location_keywords : Contains(row_loc_text, loc))

\* line 168: the whole lower-cased query occurs in the row's values joined
\* by blanks, in header order
fallback_predicate(row, query_lower) ==
    Then(Join([i \in 1..Len(row) |-> lower(str(row[i][2]))]), LAMBDA joined :
        Contains(joined, query_lower))

\* a variant of the test of line 167 that always takes the fallback
always_fallback(F) == TRUE

\* line 167: no structured filter is active
no_filter(F) ==
    /\ F.distance_params = None
    /\ F.date_range = None
    /\ F.time_range = None
    /\ F.location_keywords = {}

\* a variant of the loop without its `continue` statements
never_continue(is_match) == FALSE

\* `if not is_match: continue` (lines 138, 148, 159, 165, 170)
continue_row(is_match) == ~is_match

\* lines 128-172 for one row: the lookup state after it, whether the row
\* is appended to results, the stage at which the loop left it, and
\* whether its address was looked up
filter_row(st, row, F, mode) ==
    Then(IF F.date_range # None THEN date_predicate(row, F.date_range) ELSE TRUE,
         LAMBDA m1 :
    IF continue_row(m1)
    THEN [st |-> st, stage |-> "date", date_ok |-> m1, looked_up |-> FALSE]
    ELSE
    Then(IF F.time_range # None /\ ~time_predicate(row, F.time_range)
         THEN FALSE ELSE m1, LAMBDA m2 :
    IF continue_row(m2)
    THEN [st |-> st, stage |-> "time", date_ok |-> m1, looked_up |-> FALSE]
    ELSE
    Then(IF F.distance_params # None
         THEN Then(address_of(row), LAMBDA address : Lookup(st, address, mode))
         ELSE st, LAMBDA after :
    Then(IF F.distance_params # None
            /\ ~distance_predicate(F.distance_params, after.value)
         THEN FALSE ELSE m2, LAMBDA m3 :
    Then(F.distance_params # None, LAMBDA looked_up :
    IF continue_row(m3)
    THEN [st |-> after, stage |-> "distance", date_ok |-> m1, looked_up |-> looked_up]
    ELSE
    Then(IF F.location_keywords # {}
            /\ ~location_predicate(row, F.location_keywords)
         THEN FALSE ELSE m3, LAMBDA m4 :
    IF continue_row(m4)
    THEN [st |-> after, stage |-> "location", date_ok |-> m1, looked_up |-> looked_up]
    ELSE
    Then(IF no_filter(F) /\ ~fallback_predicate(row, F.query_lower)
         THEN FALSE ELSE m4, LAMBDA m5 :
    IF continue_row(m5)
    THEN [st |-> after, stage |-> "text", date_ok |-> m1, looked_up |-> looked_up]
    ELSE [st |-> after, stage |-> "match", date_ok |-> m1, looked_up |-> looked_up])))))))

\* the loop of line 127 over rows lo..hi, entered with lookup state st:
\* the lookup state after the last of them and the outcome of each.  The
\* rows are taken in order; the range is halved only to keep the evaluation
\* shallow.
RECURSIVE filter_rows(_, _, _, _, _, _)
filter_rows(data, lo, hi, F, mode, st) ==
    IF lo > hi THEN [st |-> st, rows |-> << >>]
    ELSE IF lo = hi
    THEN LET r == filter_row(st, data[lo], F, mode)
         IN  [st |-> r.st,
              rows |-> <<[stage |-> r.stage, date_ok |-> r.date_ok,
                          looked_up |-> r.looked_up]>>]
    ELSE LET mid == (lo + hi) \div 2
         IN  Then(filter_rows(data, lo, mid, F, mode, st), LAMBDA first :
             Then(filter_rows(data, mid + 1, hi, F, mode, first.st), LAMBDA rest :
                 [st |-> rest.st, rows |-> first.rows \o rest.rows]))

\* ------------------------------------------------------------------------
\* Step 3: the formatter (lines 175-193)
\* ------------------------------------------------------------------------

\* Property(PropertyAddress=str(r.get("PropertyAddress", "")), ...): every
\* argument is text, so validation accepts it
Property(r) ==
    [PropertyAddress |-> str(Get(r, "PropertyAddress", PyStr(<< >>))),
     SaleDate |-> str(Get(r, "SaleDate", PyStr(<< >>))),
     SaleTime |-> str(Get(r, "SaleTime", PyStr(<< >>))),
     City |-> str(Get(r, "City", PyStr(<< >>))),
     County |-> str(Get(r, "County", PyStr(<< >>))),
     ZipCode |-> str(Get(r, "ZipCode", PyStr(<< >>))),
     Source |-> str(Get(r, "Source", PyStr(<< >>)))]

\* ------------------------------------------------------------------------
\* get_sheet_data under functools.lru_cache(maxsize=1) (lines 28-46)
\* ------------------------------------------------------------------------

\* the body: (data, known_locations), or ([], set()) when anything raises.
\* row['City'].lower() raises on a cell that is not text.
get_sheet_data_body(up, records) ==
    LET bad(row, key) ==
            Then(Get(row, key, PyNone), LAMBDA cell : Truthy(cell) /\ cell.t # "str")
        named(key) ==
            {lower(cell.v) : cell \in {c \in {Get(records[i], key, PyNone) :
                                                  i \in 1..Len(records)} : Truthy(c)}}
    IN  IF ~up \/ \E i \in 1..Len(records) : bad(records[i], "City") \/ bad(records[i], "County")
        THEN [data |-> << >>, known_locations |-> {}]
        ELSE [data |-> records, known_locations |-> named("City") \cup named("County")]

\* a variant of get_sheet_data that fetches again after an empty result
get_sheet_data_retry(memo, up, records) ==
    IF memo # None /\ memo[1].data # << >>
    THEN [memo |-> memo, value |-> memo[1], fetched |-> FALSE]
    ELSE Then(get_sheet_data_body(up, records), LAMBDA r :
             [memo |-> <<r>>, value |-> r, fetched |-> TRUE])

\* get_sheet_data() through the lru_cache wrapper: the function takes no
\* argument, so the first result, whatever it is, is returned ever after.
\* memo is None before the first call and <<result>> after it.
get_sheet_data(memo, up, records) ==
    IF memo # None
    THEN [memo |-> memo, value |-> memo[1], fetched |-> FALSE]
    ELSE Then(get_sheet_data_body(up, records), LAMBDA r :
             [memo |-> <<r>>, value |-> r, fetched |-> TRUE])

\* ------------------------------------------------------------------------
\* query_foreclosure_sheet (lines 109-193)
\* ------------------------------------------------------------------------

NoFilters ==
    [query_lower |-> << >>, distance_params |-> None, date_range |-> None,
     time_range |-> None, location_keywords |-> {}]

\* One request: the two caches after it, and what it did and returned.
query_foreclosure_sheet(payload_query, memo, st, up, records, mode, now) ==
    Then(get_sheet_data(memo, up, records), LAMBDA sheet :
    IF sheet.value.data = << >>
    THEN [memo |-> sheet.memo, st |-> st, fetched |-> sheet.fetched,
          filtered |-> FALSE, F |-> NoFilters, rows |-> << >>,
          results |-> << >>, response |-> << >>]
    ELSE
    Then(strip(payload_query), LAMBDA query :
    Then(lower(query), LAMBDA query_lower :
    Then(parse_distance_query(st, query, mode), LAMBDA dist :
    Then([query_lower |-> query_lower,
          distance_params |-> dist.params,
          date_range |-> DateRangeOf(query, now),
          time_range |-> TimeRangeOf(query),
          location_keywords |->
              IF dist.params = None
              THEN {loc \in sheet.value.known_locations : Contains(query_lower, loc)}
              ELSE {}], LAMBDA F :
    Then(filter_rows(sheet.value.data, 1, Len(sheet.value.data), F, mode, dist.st),
         LAMBDA loop :
    Then(SelectSeq([i \in 1..Len(loop.rows) |-> i],
                   LAMBDA i : loop.rows[i].stage = "match"), LAMBDA results :
        [memo |-> sheet.memo, st |-> loop.st, fetched |-> sheet.fetched,
         filtered |-> TRUE, F |-> F, rows |-> loop.rows,
         results |-> results,
         response |-> [k \in 1..Len(results) |->
                          Property(sheet.value.data[results[k]])]])))))))

\* ------------------------------------------------------------------------
\* The process
\* ------------------------------------------------------------------------

VARIABLES
    sheet_memo,     \* lru_cache of get_sheet_data: None, or <<its result>>
    coords_cache,   \* lru_cache of get_coords, least recently used first
    seen,           \* instrumentation: every get_coords argument so far
    provider_up,    \* the record provider answers
    upstream,       \* which sheet the record provider holds
    geo_mode,       \* the state of the geocoding service
    today,          \* datetime.now().date()
    last            \* the last request: its query, what it did and returned

vars == <<sheet_memo, coords_cache, seen, provider_up, upstream, geo_mode, today, last>>

NoRequest ==
    [served |-> FALSE, query |-> << >>, today |-> Day0, fetched |-> FALSE,
     data |-> << >>, filtered |-> FALSE, F |-> NoFilters, rows |-> << >>,
     results |-> << >>, response |-> << >>, log |-> << >>]

\* a fresh process; the record provider may be down from the start
Init ==
    /\ sheet_memo = None
    /\ coords_cache = << >>
    /\ seen = << >>
    /\ provider_up \in BOOLEAN
    /\ upstream = 1
    /\ geo_mode = "up"
    /\ today = Day0
    /\ last = NoRequest

\* POST /query_foreclosure_sheet with payload.query = q, run to completion
Request(q, sheets) ==
    \E r \in {query_foreclosure_sheet(q, sheet_memo,
                 [cache |-> coords_cache, seen |-> seen, log |-> << >>, value |-> None],
                 provider_up, sheets[upstream], geo_mode, today)} :
        /\ sheet_memo' = r.memo
        /\ coords_cache' = r.st.cache
        /\ seen' = r.st.seen
        /\ last' = [served |-> TRUE, query |-> q, today |-> today,
                    fetched |-> r.fetched, data |-> r.memo[1].data,
                    filtered |-> r.filtered, F |-> r.F, rows |-> r.rows,
                    results |-> r.results, response |-> r.response,
                    log |-> r.st.log]
        /\ UNCHANGED <<provider_up, upstream, geo_mode, today>>

\* the record provider fails or recovers
ProviderFlips ==
    /\ provider_up' = ~provider_up
    /\ UNCHANGED <<sheet_memo, coords_cache, seen, upstream, geo_mode, today, last>>

\* the upstream sheet is replaced
SheetChanges(sheets) ==
    /\ \E u \in 1..Len(sheets) : u # upstream /\ upstream' = u
    /\ UNCHANGED <<sheet_memo, coords_cache, seen, provider_up, geo_mode, today, last>>

\* the geocoding service fails or recovers
GeocoderChanges ==
    /\ \E m \in GeocoderModes : m # geo_mode /\ geo_mode' = m
    /\ UNCHANGED <<sheet_memo, coords_cache, seen, provider_up, upstream, today, last>>

\* midnight passes
Tick ==
    /\ today < Day0 + MaxDay
    /\ today' = today + 1
    /\ UNCHANGED <<sheet_memo, coords_cache, seen, provider_up, upstream, geo_mode, last>>

\* The service while the record provider comes and goes and the sheet is
\* replaced; the geocoder answers and the day does not change.
Next ==
    \/ \E q \in MainQueries : Request(q, Sheets)
    \/ ProviderFlips
    \/ SheetChanges(Sheets)

Spec == Init /\ [][Next]_vars

\* The service over the days: date queries against a sheet that was read.
InitDates ==
    /\ sheet_memo = None
    /\ coords_cache = << >>
    /\ seen = << >>
    /\ provider_up = TRUE
    /\ upstream \in {1, 2}
    /\ geo_mode = "up"
    /\ today = Day0
    /\ last = NoRequest

NextDates ==
    \/ \E q \in DateQueries : Request(q, Sheets)
    \/ Tick

SpecDates == InitDates /\ [][NextDates]_vars

\* The service while the geocoder comes and goes: distance queries against
\* the current sheet.
InitGeo ==
    /\ sheet_memo = None
    /\ coords_cache = << >>
    /\ seen = << >>
    /\ provider_up = TRUE
    /\ upstream = 1
    /\ geo_mode \in GeocoderModes
    /\ today = Day0
    /\ last = NoRequest

NextGeo ==
    \/ \E q \in GeoQueries : Request(q, Sheets)
    \/ GeocoderChanges

SpecGeo == InitGeo /\ [][NextGeo]_vars

\* The service on a sheet longer than the geocoding cache.
NextBig ==
    \/ \E q \in BigQueries : Request(q, <<SheetBig>>)
    \/ GeocoderChanges

SpecBig == InitGeo /\ [][NextBig]_vars

\* ------------------------------------------------------------------------
\* Properties
\* ------------------------------------------------------------------------

\* the cell of row i of the sheet the last request filtered
Cell(i, key) == Get(last.data[i], key, PyNone)

\* the cached coordinates of a text, None if the cache does not hold it
CachedCoords(text) ==
    IF \E k \in 1..Len(coords_cache) : coords_cache[k].key = text
    THEN coords_cache[CHOOSE k \in 1..Len(coords_cache) : coords_cache[k].key = text].val
    ELSE None

\* C1: once a location string has been resolved successfully, a later
\* get_coords call whose argument is equal to it after trimming and
\* lower-casing returns the same coordinates and does not invoke the
\* geocoder.
C1_OncePerNormalizedString ==
    \A e \in 1..Len(last.log) :
        last.log[e].known # {} =>
            /\ ~last.log[e].called
            /\ last.log[e].value \in last.log[e].known

\* C2 as stated: after get_coords returned None for a string, every later
\* call with the same string returns None without invoking the geocoder.
C2_FailureMemoizedForever ==
    \A e \in 1..Len(last.log) :
        last.log[e].prev = <<None>> =>
            last.log[e].value = None /\ ~last.log[e].called

\* C2 as the cache keeps it: after get_coords returned None for a string, a
\* later call with the same string returns None without invoking the
\* geocoder as long as fewer than maxsize other distinct strings were looked
\* up in between.
C2_FailureMemoizedWhileCached ==
    \A e \in 1..Len(last.log) :
        last.log[e].prev = <<None>> /\ last.log[e].since < maxsize =>
            last.log[e].value = None /\ ~last.log[e].called

\* a failed lookup answered from the cache although the geocoder is up and
\* knows the place
C2_Witness ==
    /\ geo_mode = "up"
    /\ \E e \in 1..Len(last.log) :
          /\ last.log[e].prev = <<None>>
          /\ last.log[e].since < maxsize
          /\ last.log[e].value = None
          /\ World(lower(strip(last.log[e].arg))) # None

\* row i of the last request fails an active date or time-of-day predicate
FailsDateOrTime(i) ==
    \/ last.F.date_range # None /\ ~date_predicate(last.data[i], last.F.date_range)
    \/ last.F.time_range # None /\ ~time_predicate(last.data[i], last.F.time_range)

\* C3: in a request with a distance constraint, no coordinates are looked
\* up for a row that fails the active date or time-of-day predicate: the
\* lookups of the request are the one of the anchor and one per remaining
\* row.
C3_ShortCircuit ==
    last.filtered /\ last.F.distance_params # None =>
        /\ \A i \in 1..Len(last.rows) : FailsDateOrTime(i) => ~last.rows[i].looked_up
        /\ Len(last.log) = 1 + Cardinality({i \in 1..Len(last.rows) : ~FailsDateOrTime(i)})

\* a request with a distance constraint in which a date or time filter
\* drops some row and lets another through to the lookup
C3_Witness ==
    /\ last.filtered
    /\ last.F.distance_params # None
    /\ \E i \in 1..Len(last.rows) : FailsDateOrTime(i) /\ ~last.rows[i].looked_up
    /\ \E i \in 1..Len(last.rows) : last.rows[i].looked_up

\* the day the SaleDate of row i parses to, None if it is missing, empty,
\* not text or not a date
SaleDay(i) ==
    IF Cell(i, "SaleDate").t = "str" THEN strptime_date(Cell(i, "SaleDate").v) ELSE None

InRange(i) ==
    /\ SaleDay(i) # None
    /\ last.F.date_range[1] <= SaleDay(i)[1]
    /\ SaleDay(i)[1] <= last.F.date_range[2]

\* C4: under an active date range a row passes the date predicate exactly
\* when its SaleDate parses to a day within the range, both ends included;
\* every other row is left out of the result, and the request completes.
C4_DatePredicate ==
    last.filtered /\ last.F.date_range # None =>
        /\ Len(last.rows) = Len(last.data)
        /\ \A i \in 1..Len(last.rows) : last.rows[i].date_ok <=> InRange(i)
        /\ \A k \in 1..Len(last.results) : InRange(last.results[k])
        /\ Len(last.response) = Len(last.results)

\* a request under a date range with a row dated on the last day of the
\* range returned, and a row with a SaleDate that is no date left out
C4_Witness ==
    /\ last.filtered
    /\ last.F.date_range # None
    /\ \E k \in 1..Len(last.results) :
          SaleDay(last.results[k]) = <<last.F.date_range[2]>>
    /\ \E i \in 1..Len(last.rows) :
          /\ Truthy(Cell(i, "SaleDate"))
          /\ SaleDay(i) = None
          /\ last.rows[i].stage = "date"

HasPhrase(text, phrase) == Contains(lower(text), phrase)

\* the first Monday after day d
NextMonday(d) == CHOOSE s \in (d + 1)..(d + 7) : weekday(s) = 0

\* C5 as stated: for a query that contains "next week" the date range runs
\* from the Monday after the current week to the Sunday after it.
C5_NextWeek ==
    last.filtered /\ HasPhrase(last.query, S_next_week) =>
        last.F.date_range = <<NextMonday(last.today), NextMonday(last.today) + 6>>

\* C5 as parse_date_query orders its tests: the same, for a query that
\* contains "next week" and none of "today", "tomorrow", "this week".
C5_NextWeekAlone ==
    /\ last.filtered
    /\ HasPhrase(last.query, S_next_week)
    /\ ~HasPhrase(last.query, S_today)
    /\ ~HasPhrase(last.query, S_tomorrow)
    /\ ~HasPhrase(last.query, S_this_week)
    => last.F.date_range = <<NextMonday(last.today), NextMonday(last.today) + 6>>

\* a "next week" query posted on a Sunday: the range starts the day after
C5_Witness ==
    /\ last.filtered
    /\ last.query = Q_Next_Week
    /\ weekday(last.today) = 6
    /\ last.F.date_range = <<last.today + 1, last.today + 7>>

\* C6: when the unit matched in the query is an hour unit (hr, hrs, hour,
\* hours) with magnitude n, the distance bound is n * 45 miles.
C6_HourBound ==
    last.filtered /\ last.F.distance_params # None =>
        \A m \in {pattern_search(strip(last.query))} :
            lower(m.rest.unit) \in {S_hr, S_hour} =>
                \A bound \in {last.F.distance_params.max_dist,
                              last.F.distance_params.min_dist} \ {None} :
                    bound[1] * float(m.rest.val_str)[2]
                        = 45 * float(m.rest.val_str)[1] * bound[2]

\* the result of "within (n + 1) miles of Nashville" posted now, with the
\* geocoder in state mode
Wider(n, mode) ==
    query_foreclosure_sheet(WithinMiles(n + 1, T_Nashville), sheet_memo,
        [cache |-> coords_cache, seen |-> seen, log |-> << >>, value |-> None],
        provider_up, Sheets[upstream], mode, today).results

\* C7: every row returned for "within n miles of Nashville" is returned for
\* "within (n + 1) miles of Nashville" posted next against the same sheet.
C7_Monotonic ==
    \A n \in MilesAsked :
        last.filtered /\ last.query = WithinMiles(n, T_Nashville) =>
            \A mode \in GeocoderModes :
                \A wider \in {Wider(n, mode)} :
                    \A k \in 1..Len(last.results) :
                        \E j \in 1..Len(wider) : wider[j] = last.results[k]

\* "within 11 miles of Nashville" returned rows out of the cache while the
\* geocoder is down, and the wider query returns more
C7_Witness ==
    /\ last.filtered
    /\ last.query = WithinMiles(11, T_Nashville)
    /\ geo_mode # "up"
    /\ Len(last.results) > 0
    /\ Len(Wider(11, geo_mode)) > Len(last.results)

\* some structured predicate of the last request is active
Structured ==
    \/ last.F.date_range # None
    \/ last.F.time_range # None
    \/ last.F.distance_params # None
    \/ last.F.location_keywords # {}

\* row i passes every active structured predicate of the last request
PassesStructured(i) ==
    /\ last.F.date_range # None => date_predicate(last.data[i], last.F.date_range)
    /\ last.F.time_range # None => time_predicate(last.data[i], last.F.time_range)
    /\ last.F.distance_params # None =>
          distance_predicate(last.F.distance_params,
                             CachedCoords(address_of(last.data[i])))
    /\ last.F.location_keywords # {} =>
          location_predicate(last.data[i], last.F.location_keywords)

\* C8: the whole-query substring test decides a row only in a request with
\* no structured predicate; in a request with one, the rows returned are
\* exactly those that pass the active predicates, whether or not they
\* contain the query text.
C8_FallbackExclusive ==
    last.filtered =>
        \A i \in 1..Len(last.rows) :
            /\ last.rows[i].stage = "text" => ~Structured
            /\ Structured => (last.rows[i].stage = "match" <=> PassesStructured(i))
            /\ ~Structured =>
                  (last.rows[i].stage = "match"
                      <=> fallback_predicate(last.data[i], last.F.query_lower))

\* a request with a structured predicate returned a row that does not
\* contain the query text
C8_Witness ==
    /\ last.filtered
    /\ Structured
    /\ \E i \in 1..Len(last.rows) :
          /\ last.rows[i].stage = "match"
          /\ ~fallback_predicate(last.data[i], last.F.query_lower)

ExpectedFields ==
    {"PropertyAddress", "SaleDate", "SaleTime", "City", "County", "ZipCode", "Source"}

HasField(row, key) == \E c \in 1..Len(row) : row[c][1] = key

\* the text the claim gives field key of a record: empty for a missing
\* field and for None, else the text form of the value
FieldAsClaimed(row, key) ==
    IF ~HasField(row, key) \/ Get(row, key, PyNone).t = "none" THEN << >>
    ELSE IF Get(row, key, PyNone).t = "int" THEN IntToStr(Get(row, key, PyNone).v[1])
    ELSE Get(row, key, PyNone).v

\* C9: every returned record carries each of the seven fields as text, empty
\* when the field is missing from the record or holds None, else the text
\* form of the value; no matched record is dropped.
C9_FormatterBlanks ==
    last.filtered =>
        /\ Len(last.response) = Len(last.results)
        /\ \A k \in 1..Len(last.response) :
              \A key \in ExpectedFields :
                  last.response[k][key] = FieldAsClaimed(last.data[last.results[k]], key)

\* one step of the process as the sheet cache sees it
SheetMemoStep ==
    /\ sheet_memo # None => sheet_memo' = sheet_memo
    /\ last' # last =>
          /\ last'.fetched <=> sheet_memo = None
          /\ last'.data = sheet_memo'[1].data
          /\ last'.data = << >> => last'.response = << >>

\* C10: the outcome of the first get_sheet_data call, a failure included,
\* is kept for the life of the process: the provider is contacted by the
\* first request only, a request after a failed fetch returns the empty
\* result, and a change of the upstream sheet is never seen.
C10_SheetMemoized == [][SheetMemoStep]_vars

\* the first fetch failed, the provider is up again and holds the current
\* sheet, and the last request returned nothing without contacting it
C10_Witness ==
    /\ sheet_memo # None
    /\ sheet_memo[1].data = << >>
    /\ provider_up
    /\ upstream = 1
    /\ last.served
    /\ ~last.fetched
    /\ last.response = << >>

=============================================================================
